---- MODULE Spec2Model ----
(***************************************************************************)
(* State-machine model of the scholar citation scraper                     *)
(* (src/scholar_citations.py, class GoogleScholarScraper) and of the       *)
(* affiliation finder (src/scrape_affliations.py, class                    *)
(* ComprehensiveAffiliationFinder).                                        *)
(*                                                                         *)
(* Text is modelled as a sequence of one-character strings, so that        *)
(* lowercasing, stripping, substring containment, isdigit() and int() are  *)
(* computed and not assumed.  Time is counted in whole seconds.            *)
(*                                                                         *)
(* Specifications:                                                         *)
(*   SpecFetch   one call of _make_request, one action per attempt         *)
(*   Spec        the citation pass get_all_citations                       *)
(*   SpecFilter  the per-publication year filter of get_all_citations      *)
(*   SpecAff     process_papers, run, killed and re-run on one file        *)
(*   SpecMatch   the author-name matching rule of process_papers           *)
(*   SpecPages   one call of _get_total_citation_pages                     *)
(*   SpecSort    the final sort of get_all_citations                       *)
(*   SpecYear    the year _parse_citing_paper takes from a byline          *)
(***************************************************************************)
EXTENDS Integers, Sequences, FiniteSets, TLC

VARIABLES
    \* ---- _make_request (one call)
    mrPc,          \* "off" | "loop" | "returned"
    mrUrl,         \* the url argument
    mrRetries,     \* the retries argument
    mrStatuses,    \* outcome of every attempt made so far, in order
    mrWaits,       \* seconds slept after every attempt made so far (0: none)
    mrIssued,      \* the URL every attempt requested
    mrRet,         \* the return value (None or the response text)
    \* ---- get_all_citations
    pc,            \* position in get_all_citations
    papers,        \* rows of the profile page: TRUE when the row has a cited-by URL
    idx,           \* 1-based index of the current row
    total_pages,   \* total_pages of the current publication
    page,          \* current page index of the current publication
    citations,     \* records of the current publication
    all_citations, \* accumulated records
    requested,     \* the page requests made for the current publication
    table,         \* the DataFrame get_all_citations returns
    saved,         \* the CSV file get_all_citations writes
    lastFetch,     \* the latest successful fetch
    pacedSince,    \* the pacing delay slept since the latest successful fetch (0: none)
    min_year,      \* the min_year get_all_citations was called with (0: None)
    \* ---- year filter
    fPc, fIn, fMin, fOut,
    \* ---- process_papers
    aPc,           \* "idle" | "loop" | "returned" | "saved" | "crashed" | "off"
    world,         \* what the three sources answer for each title
    run,           \* "first" | "second"
    start_index,
    i,             \* index (0-based) of the next title
    results,       \* the in-memory list of records
    file,          \* content of output_file
    loaded,        \* what this run loaded from output_file at its start
    fileAtStart,   \* content of output_file when this run started
    firstEnd,      \* how the first run ended
    firstResult,   \* the results of the first run when it ended
    lastPaper,     \* what the latest iteration did
    \* ---- name matching
    nmPc, nmName, nmAuthor, nmOut,
    \* ---- _get_total_citation_pages (one call)
    tpPc, tpIn, tpOut,
    \* ---- the final sort of get_all_citations
    sPc, sIn, sOut,
    \* ---- the year of _parse_citing_paper (one call)
    yPc, yIn, yOut

fetchVars == <<mrPc, mrUrl, mrRetries, mrStatuses, mrWaits, mrIssued, mrRet>>
collVars  == <<pc, papers, idx, total_pages, page, citations, all_citations,
               requested, table, saved, lastFetch, pacedSince,
               min_year>>
filtVars  == <<fPc, fIn, fMin, fOut>>
affVars   == <<aPc, world, run, start_index, i, results, file, loaded, fileAtStart,
               firstEnd, firstResult, lastPaper>>
matchVars == <<nmPc, nmName, nmAuthor, nmOut>>
pagesVars == <<tpPc, tpIn, tpOut>>
sortVars  == <<sPc, sIn, sOut>>
yearVars  == <<yPc, yIn, yOut>>
vars      == <<fetchVars, collVars, filtVars, affVars, matchVars, pagesVars,
               sortVars, yearVars>>

\* each component leaves the state of the others alone
OnlyFetch == UNCHANGED <<collVars, filtVars, affVars, matchVars, pagesVars,
                         sortVars, yearVars>>
OnlyColl  == UNCHANGED <<fetchVars, filtVars, affVars, matchVars, pagesVars,
                         sortVars, yearVars>>
OnlyFilt  == UNCHANGED <<fetchVars, collVars, affVars, matchVars, pagesVars,
                         sortVars, yearVars>>
OnlyAff   == UNCHANGED <<fetchVars, collVars, filtVars, matchVars, pagesVars,
                         sortVars, yearVars>>
OnlyMatch == UNCHANGED <<fetchVars, collVars, filtVars, affVars, pagesVars,
                         sortVars, yearVars>>
OnlyPages == UNCHANGED <<fetchVars, collVars, filtVars, affVars, matchVars,
                         sortVars, yearVars>>
OnlySort  == UNCHANGED <<fetchVars, collVars, filtVars, affVars, matchVars,
                         pagesVars, yearVars>>
OnlyYear  == UNCHANGED <<fetchVars, collVars, filtVars, affVars, matchVars,
                         pagesVars, sortVars>>

(***************************************************************************)
(* Values shared by the components                                         *)
(***************************************************************************)
None == <<"<None>">>          \* Python's None
NaN  == <<"<NaN>">>           \* pandas' missing value

\* random.uniform(2.0, 4.0): the closed interval, in whole seconds
MinDelay == 2
MaxDelay == 4
GetRandomDelay == MinDelay..MaxDelay

\* retries: int = 3
DefaultRetries == 3
\* wait_time = (attempt + 1) * 60
BackoffUnit == 60
\* line 178: the results per page
PageSize == 10
\* scrape_affliations.py line 207: time.sleep(1)
PaperDelay == 1

\* ---- bounds of the model
MaxRetries == 3
MaxPapers  == 2
MaxPages   == 3
MaxRecords == 4
MaxTitles  == 3
MaxLabels  == 3
MaxRows    == 3
MaxByline  == 5

(***************************************************************************)
(* _make_request, src/scholar_citations.py:35-54                           *)
(***************************************************************************)
Urls      == {"profile_url", "cited_by_url"}
\* what one session.get can end with: a status code, or an exception
\* (timeout, connection error)
Statuses  == {"200", "429", "500", "exc"}
\* response.text of a 200 answer; the body may be empty
Bodies    == {<<>>, <<"h", "t", "m", "l">>}

InitFetchOff ==
    /\ mrPc = "off" /\ mrUrl = "" /\ mrRetries = 0 /\ mrStatuses = <<>>
    /\ mrWaits = <<>> /\ mrIssued = <<>> /\ mrRet = None

InitFetch ==
    /\ mrPc = "loop"
    /\ mrUrl \in Urls
    /\ mrRetries \in 0..MaxRetries
    /\ mrStatuses = <<>> /\ mrWaits = <<>> /\ mrIssued = <<>>
    /\ mrRet = None

\* RetryWait with the 429 wait not scaled by the attempt number
RetryWaitFlat(status, attempt, retries, delay) ==
    CASE status = "200" -> 0
      [] status = "429" -> BackoffUnit
      [] status = "exc" -> IF attempt < retries - 1 THEN delay ELSE 0
      [] OTHER          -> 0

\* The seconds slept in the loop body after an attempt (0-based index
\* attempt) that ended with status; delay is the value _get_random_delay
\* would return.
RetryWait(status, attempt, retries, delay) ==
    CASE status = "200" -> 0
      [] status = "429" -> (attempt + 1) * BackoffUnit
      [] status = "exc" -> IF attempt < retries - 1 THEN delay ELSE 0
      [] OTHER          -> 0

\* LoopContinues with one iteration too many
LoopContinuesOneMore(attempt, retries) == attempt <= retries

\* for attempt in range(retries): the loop still has an iteration to run
LoopContinues(attempt, retries) == attempt < retries

\* One iteration of the loop: the request, its outcome, the sleep.
Attempt(status, body, delay) ==
    /\ mrPc = "loop"
    /\ LoopContinues(Len(mrStatuses), mrRetries)
    /\ mrIssued' = Append(mrIssued, mrUrl)
    /\ mrStatuses' = Append(mrStatuses, status)
    /\ mrWaits' = Append(mrWaits,
                         RetryWait(status, Len(mrStatuses), mrRetries, delay))
    /\ IF status = "200"
          THEN mrPc' = "returned" /\ mrRet' = body
          ELSE mrPc' = "loop" /\ mrRet' = mrRet
    /\ UNCHANGED <<mrUrl, mrRetries>>

AttemptOk ==
    /\ \E b \in Bodies : Attempt("200", b, MinDelay)
    /\ OnlyFetch
AttemptRateLimit ==
    /\ Attempt("429", <<>>, MinDelay)
    /\ OnlyFetch
AttemptBadStatus ==
    /\ Attempt("500", <<>>, MinDelay)
    /\ OnlyFetch
AttemptException ==
    /\ \E d \in GetRandomDelay : Attempt("exc", <<>>, d)
    /\ OnlyFetch

\* the loop ran out: return None
Exhausted ==
    /\ mrPc = "loop"
    /\ ~LoopContinues(Len(mrStatuses), mrRetries)
    /\ mrPc' = "returned"
    /\ mrRet' = None
    /\ UNCHANGED <<mrUrl, mrRetries, mrStatuses, mrWaits, mrIssued>>
    /\ OnlyFetch

\* The complete runs of one call: every attempt but the last fails, and the
\* call ends at the first 200 or when the budget is used up.
RECURSIVE SeqsUpTo(_, _)
SeqsUpTo(S, n) ==
    IF n = 0 THEN {<<>>}
    ELSE LET shorter == SeqsUpTo(S, n - 1)
         IN  shorter \cup {Append(s, x) : s \in {t \in shorter : Len(t) = n - 1}, x \in S}

MakeRequestRuns(retries) ==
    {r \in SeqsUpTo(Statuses, retries) :
        /\ \A k \in 1..(Len(r) - 1) : r[k] # "200"
        /\ \/ (Len(r) > 0 /\ r[Len(r)] = "200")
           \/ Len(r) = retries}

\* what the call returns after the run r, body being the text of a 200 answer
MakeRequestResult(r, body) ==
    IF Len(r) > 0 /\ r[Len(r)] = "200" THEN body ELSE None

(***************************************************************************)
(* Text helpers                                                            *)
(***************************************************************************)
Digits == {"0", "1", "2", "3", "4", "5", "6", "7", "8", "9"}
\* one character that is a decimal digit and not an ASCII one: U+0662,
\* ARABIC-INDIC DIGIT TWO
ArabicTwo == "U+0662"
\* the characters str.isdigit(), int() and the pattern \d take for digits
DecimalDigits == Digits \cup {ArabicTwo}
\* one character that str.isdigit() accepts and that is no decimal digit
\* (int() raises on it, \d does not match it): U+00B2, SUPERSCRIPT TWO
SuperTwo == "U+00B2"
\* the characters str.isdigit() takes for digits
IsDigitChars == DecimalDigits \cup {SuperTwo}
DigitVal == [c \in DecimalDigits |->
    CASE c = "0" -> 0 [] c = "1" -> 1 [] c = "2" -> 2 [] c = "3" -> 3
      [] c = "4" -> 4 [] c = "5" -> 5 [] c = "6" -> 6 [] c = "7" -> 7
      [] c = "8" -> 8 [] c = "9" -> 9 [] c = ArabicTwo -> 2]
DigitChar == [d \in 0..9 |-> CHOOSE c \in Digits : DigitVal[c] = d]

\* str.isdigit(): non-empty and every character a digit
IsDigit(s) == Len(s) > 0 /\ \A k \in 1..Len(s) : s[k] \in IsDigitChars

\* int(s) raises ValueError: s is empty or holds a character that is no
\* decimal digit
IntRaises(s) == Len(s) = 0 \/ \E k \in 1..Len(s) : s[k] \notin DecimalDigits

\* int(s) of a digit string
RECURSIVE ToInt(_)
ToInt(s) ==
    IF Len(s) = 0 THEN 0
    ELSE 10 * ToInt(SubSeq(s, 1, Len(s) - 1)) + DigitVal[s[Len(s)]]

\* str(n) of a natural number
RECURSIVE ToStr(_)
ToStr(n) ==
    IF n < 10 THEN <<DigitChar[n]>>
    ELSE Append(ToStr(n \div 10), DigitChar[n % 10])

RECURSIVE MaxOf(_)
MaxOf(S) ==
    LET x == CHOOSE y \in S : TRUE
    IN  IF S = {x} THEN x
        ELSE LET m == MaxOf(S \ {x}) IN IF x > m THEN x ELSE m

\* sample text values
UpperCase == <<"A", "B", "C", "D", "E", "F", "G", "H", "I", "J", "K", "L", "M",
               "N", "O", "P", "Q", "R", "S", "T", "U", "V", "W", "X", "Y", "Z">>
LowerCase == <<"a", "b", "c", "d", "e", "f", "g", "h", "i", "j", "k", "l", "m",
               "n", "o", "p", "q", "r", "s", "t", "u", "v", "w", "x", "y", "z">>
Y2020 == <<"2", "0", "2", "0">>
YEmpty == <<>>

\* ---- the year filter of get_all_citations, lines 227-229
Y2018 == <<"2", "0", "1", "8">>
YAbc  == <<"a", "b", "c">>
Years == {Y2020, Y2018, YEmpty, YAbc}
\* min_year: 0 stands for None (both are false in `if min_year:`)
MinYears == {0, 2019, 2021}

\* c.get('year') and c['year'].isdigit() and int(c['year']) >= min_year
\* (m is the min_year of the call)
KeepsYear(c, m) ==
    /\ c.year # <<>>
    /\ IsDigit(c.year)
    /\ ToInt(c.year) >= m

\* if min_year: citations = [c for c in citations if ...]
FilterByYear(cits, m) ==
    IF m # 0
    THEN SelectSeq(cits, LAMBDA c : KeepsYear(c, m))
    ELSE cits

(***************************************************************************)
(* The final sort of get_all_citations, src/scholar_citations.py:245-248   *)
(***************************************************************************)
\* the characters of the sample years and titles, in code point order
CodePoints ==
    <<"0", "1", "2", "3", "4", "5", "6", "7", "8", "9">> \o UpperCase \o LowerCase
CodeOf ==
    [c \in {CodePoints[k] : k \in 1..Len(CodePoints)} |->
        CHOOSE k \in 1..Len(CodePoints) : CodePoints[k] = c]

\* a < b for two str values
RECURSIVE StrLess(_, _)
StrLess(a, b) ==
    IF Len(b) = 0 THEN FALSE
    ELSE IF Len(a) = 0 THEN TRUE
    ELSE IF a[1] # b[1] THEN CodeOf[a[1]] < CodeOf[b[1]]
    ELSE StrLess(Tail(a), Tail(b))

\* the years and titles of the sample rows
Y2019 == <<"2", "0", "1", "9">>
Y1999 == <<"1", "9", "9", "9">>
SortYears  == {YEmpty, Y1999, Y2019, Y2020}
SortTitles == {<<"A">>, <<"B">>, <<"C">>}

\* all_citations before the sort: link tells the rows apart (it is the
\* position of the row in all_citations)
RowsOf(keys) ==
    [k \in 1..Len(keys) |-> [year |-> keys[k][1], title |-> keys[k][2], link |-> ToStr(k)]]
SortInputs ==
    {RowsOf(keys) : keys \in SeqsUpTo(SortYears \X SortTitles, MaxRows) \ {<<>>}}

\* SortsBefore with the year ascending
SortsBeforeYearAscending(a, b) ==
    \/ StrLess(a.year, b.year)
    \/ a.year = b.year /\ StrLess(a.title, b.title)

\* by=['year', 'title'], ascending=[False, True]: a comes strictly before b
SortsBefore(a, b) ==
    \/ StrLess(b.year, a.year)
    \/ a.year = b.year /\ StrLess(a.title, b.title)

\* the sort is stable: a row goes behind every row it does not come before
InsertRow(sorted, r) ==
    LET n == Cardinality({k \in 1..Len(sorted) : ~SortsBefore(r, sorted[k])})
    IN  SubSeq(sorted, 1, n) \o <<r>> \o SubSeq(sorted, n + 1, Len(sorted))

\* df.sort_values(...).reset_index(drop=True)
RECURSIVE SortValues(_)
SortValues(rows) ==
    IF Len(rows) = 0 THEN <<>>
    ELSE InsertRow(SortValues(SubSeq(rows, 1, Len(rows) - 1)), rows[Len(rows)])

InitSort == sPc = "in" /\ sIn \in SortInputs /\ sOut = <<>>

ApplySort ==
    /\ sPc = "in"
    /\ sOut' = SortValues(sIn)
    /\ sPc' = "out"
    /\ UNCHANGED sIn
    /\ OnlySort
InitSortOff == sPc = "off" /\ sIn = <<>> /\ sOut = <<>>

(***************************************************************************)
(* get_all_citations and _get_citations_for_paper,                         *)
(* src/scholar_citations.py:152-255.  Every call of _make_request is one   *)
(* step: it runs one of the complete runs of the call.                     *)
(***************************************************************************)
EmptyBody == <<>>
NextLabel == <<"N", "e", "x", "t">>

\* the pagination footer (div id gs_n) of a result page: <<present, labels of
\* its links>>
Footers ==
    {<<FALSE, <<>>>>, <<TRUE, <<>>>>, <<TRUE, <<NextLabel>>>>}
    \cup {<<TRUE, Append([k \in 1..n |-> ToStr(k)], NextLabel)>> : n \in 1..MaxPages}

\* the result blocks (div class gs_r gs_or gs_scl) of a page in document
\* order: TRUE for a block _parse_citing_paper turns into a record, FALSE
\* for one it answers with {} (line 120 raises KeyError on a title link
\* without href, lines 148-150)
BlockLists == {<<>>, <<FALSE>>, <<TRUE, TRUE>>}

\* a result page: <<"page", result blocks, footer>>
PageContents == {<<"page", blocks, f>> : blocks \in BlockLists, f \in Footers}

\* a body on which BeautifulSoup(content, 'html.parser') raises
Unparsable == <<"unparsable">>
ParserRaises(content) == content = Unparsable

\* the profile page: <<"profile", rows>>, a row being TRUE when it holds
\* a cited-by link with a cluster id
RowLists == SeqsUpTo(BOOLEAN, MaxPapers)
ProfileContents == {<<"profile", rows>> : rows \in RowLists}

\* if not content
NotContent(c) == c = None \/ c = EmptyBody

\* _get_total_citation_pages.  Lines 102-105: int() of a link text that
\* isdigit() accepts can raise ValueError, as max([]) does; the except
\* swallows both and line 108 returns 1.  Lines 110-112: an exception of
\* the parser is swallowed too and 0 returned.
GetTotalCitationPages(content) ==
    IF ParserRaises(content) THEN 0 ELSE
    LET hasResults == Len(content[2]) > 0
        footer     == content[3]
        labels     == footer[2]
        digitLinks == {j \in 1..Len(labels) : IsDigit(labels[j])}
        raises     == \/ \E j \in digitLinks : IntRaises(labels[j])
                      \/ digitLinks = {}
    IN  IF ~hasResults THEN 0
        ELSE IF footer[1] /\ ~raises
             THEN MaxOf({ToInt(labels[j]) : j \in digitLinks})
        ELSE 1

\* the sample record of page p of publication paper: the pages of the
\* first publication carry older years than those of the second, odd pages
\* carry no year, and later pages carry earlier titles
CitationYear(paper, p) ==
    IF p % 2 = 1 THEN YEmpty ELSE IF paper % 2 = 1 THEN Y2019 ELSE Y2020
CitationTitle(paper, p) == <<UpperCase[Len(UpperCase) - p]>>
Citation(paper, p, k) ==
    [cited_paper |-> paper, page |-> p, block |-> k,
     year |-> CitationYear(paper, p), title |-> CitationTitle(paper, p)]

\* lines 170-174 and 188-192: the loop over the blocks of a page; a block
\* whose citation_data is {} appends nothing
RECURSIVE ParseBlocks(_, _, _, _)
ParseBlocks(blocks, paper, p, k) ==
    IF k > Len(blocks) THEN <<>>
    ELSE (IF blocks[k] THEN <<Citation(paper, p, k)>> ELSE <<>>)
         \o ParseBlocks(blocks, paper, p, k + 1)

PageRecords(content, paper, p) == ParseBlocks(content[2], paper, p, 1)

\* the file get_all_citations has not written
NoCsv == [exists |-> FALSE, rows |-> <<>>]
\* df.to_csv(filename, index=False): the rows of df, its text as it is
SaveCsv(df) == [exists |-> TRUE, rows |-> df]

\* what _make_request can return for a URL whose 200 answers are in contents
Fetched(contents) ==
    {MakeRequestResult(r, c) :
        r \in MakeRequestRuns(DefaultRetries), c \in contents \cup {EmptyBody}}

\* bookkeeping of a fetch that returned content
NoteFetch(name) ==
    /\ lastFetch' = name
    /\ pacedSince' = 0

\* time.sleep(self._get_random_delay())
PacingSleep(d) == pacedSince' = d

\* start_idx = page * 10 with the increment of the index in its place
PageStartNext(p) == (p + 1) * PageSize

\* line 178: start_idx = page * 10
PageStart(p) == p * PageSize

\* one request of a result page of publication paper: the page index, the
\* start parameter of its URL (<<>> for cited_by_url itself), what came back
\* and the records its blocks hold
PageRequest(p, content, paper) ==
    [page    |-> p,
     start   |-> IF p = 0 THEN <<>> ELSE <<PageStart(p)>>,
     got     |-> IF NotContent(content) THEN "failed"
                 ELSE IF ParserRaises(content) THEN "unparsable" ELSE "page",
     records |-> IF NotContent(content) \/ ParserRaises(content) THEN <<>>
                 ELSE PageRecords(content, paper, p)]

\* line 231: all_citations.extend(citations)
ExtendWith(all, cits) == all \o cits

InitCollOff ==
    /\ min_year = 0
    /\ pc = "off" /\ papers = <<>> /\ idx = 0 /\ total_pages = 0 /\ page = 0
    /\ citations = <<>> /\ all_citations = <<>> /\ requested = <<>>
    /\ table = <<>> /\ saved = NoCsv
    /\ lastFetch = <<"none">> /\ pacedSince = 0

\* the min_year of the runs: None, as main() passes it, and a year
RunMinYears == {0, 2020}

InitColl ==
    /\ min_year \in RunMinYears
    /\ pc = "profile" /\ papers = <<>> /\ idx = 0 /\ total_pages = 0 /\ page = 0
    /\ citations = <<>> /\ all_citations = <<>> /\ requested = <<>>
    /\ table = <<>> /\ saved = NoCsv
    /\ lastFetch = <<"none">> /\ pacedSince = 0

\* lines 202-214: the profile page.  Line 209 parses it outside any try: an
\* exception of the parser leaves get_all_citations
FetchProfile ==
    /\ pc = "profile"
    /\ \E content \in Fetched(ProfileContents \cup {Unparsable}) :
        IF NotContent(content)
        THEN /\ pc' = "done"
             /\ UNCHANGED <<papers, idx, lastFetch, pacedSince>>
        ELSE IF ParserRaises(content)
        THEN /\ pc' = "raised"
             /\ NoteFetch(<<"profile">>)
             /\ UNCHANGED <<papers, idx>>
        ELSE /\ papers' = content[2]
             /\ idx' = 1
             /\ pc' = "paper"
             /\ NoteFetch(<<"profile">>)
    /\ UNCHANGED <<total_pages, page, citations, all_citations, requested>>
    /\ UNCHANGED <<table, saved, min_year>>
    /\ OnlyColl

\* lines 216-223: the next row; without a cited-by URL only the sleep of
\* line 234 is left
NextPaper ==
    /\ pc = "paper"
    /\ idx <= Len(papers)
    /\ pc' = IF papers[idx] THEN "page0" ELSE "papersleep"
    /\ citations' = <<>>
    /\ requested' = <<>>
    /\ total_pages' = 0
    /\ page' = 0
    /\ UNCHANGED <<papers, idx, all_citations, lastFetch, pacedSince>>
    /\ UNCHANGED <<table, saved, min_year>>
    /\ OnlyColl

\* lines 157-174: the first page and total_pages.  A body the parser
\* rejects has total_pages = 0, so line 167 parses only what line 90 parsed
FetchFirstPage ==
    /\ pc = "page0"
    /\ \E content \in Fetched(PageContents \cup {Unparsable}) :
      /\ requested' = Append(requested, PageRequest(0, content, idx))
      /\ IF NotContent(content)
        THEN /\ pc' = "extend"
             /\ UNCHANGED <<total_pages, page, citations, lastFetch, pacedSince>>
        ELSE /\ NoteFetch(<<"page", idx, 0>>)
             /\ total_pages' = GetTotalCitationPages(content)
             /\ IF GetTotalCitationPages(content) = 0
                   THEN pc' = "extend" /\ UNCHANGED <<page, citations>>
                   ELSE /\ citations' = PageRecords(content, idx, 0)
                        /\ page' = 1
                        /\ pc' = "pages"
    /\ UNCHANGED <<papers, idx, all_citations>>
    /\ UNCHANGED <<table, saved, min_year>>
    /\ OnlyColl

\* lines 177-192: page `page` of the current publication.  Line 185 parses
\* it outside any try of _get_citations_for_paper: an exception of the
\* parser leaves the call
FetchNextPage ==
    /\ pc = "pages"
    /\ page < total_pages
    /\ \E content \in Fetched(PageContents \cup {Unparsable}) :
      /\ requested' = Append(requested, PageRequest(page, content, idx))
      /\ IF NotContent(content)
        THEN /\ pc' = "extend"
             /\ UNCHANGED <<citations, lastFetch, pacedSince>>
        ELSE IF ParserRaises(content)
        THEN /\ NoteFetch(<<"page", idx, page>>)
             /\ pc' = "except"
             /\ UNCHANGED citations
        ELSE /\ NoteFetch(<<"page", idx, page>>)
             /\ citations' = citations \o PageRecords(content, idx, page)
             /\ pc' = "pagesleep"
    /\ UNCHANGED <<papers, idx, total_pages, page, all_citations>>
    /\ UNCHANGED <<table, saved, min_year>>
    /\ OnlyColl

\* lines 236-238: the exception that left _get_citations_for_paper is
\* caught; the records of the publication are lost with the call, lines
\* 231 and 234 are skipped and the loop goes on with the next row
ExceptContinue ==
    /\ pc = "except"
    /\ idx' = idx + 1
    /\ citations' = <<>>
    /\ requested' = <<>>
    /\ total_pages' = 0
    /\ page' = 0
    /\ pc' = "paper"
    /\ UNCHANGED <<papers, all_citations, lastFetch, pacedSince>>
    /\ UNCHANGED <<table, saved, min_year>>
    /\ OnlyColl

\* line 195: the sleep that ends an iteration of the page loop
PageSleep ==
    /\ pc = "pagesleep"
    /\ \E d \in GetRandomDelay : PacingSleep(d)
    /\ page' = page + 1
    /\ pc' = "pages"
    /\ UNCHANGED <<papers, idx, total_pages, citations, all_citations,
                   requested, lastFetch>>
    /\ UNCHANGED <<table, saved, min_year>>
    /\ OnlyColl

\* line 177: range(1, total_pages) is used up
PagesDone ==
    /\ pc = "pages"
    /\ page >= total_pages
    /\ pc' = "extend"
    /\ UNCHANGED <<papers, idx, total_pages, page, citations, all_citations,
                   requested, lastFetch, pacedSince>>
    /\ UNCHANGED <<table, saved, min_year>>
    /\ OnlyColl

\* lines 225-232: _get_citations_for_paper has returned citations; the
\* filter by year of lines 228-229; all_citations.extend
Extend ==
    /\ pc = "extend"
    /\ all_citations' = ExtendWith(all_citations, FilterByYear(citations, min_year))
    /\ requested' = <<>>
    /\ total_pages' = 0
    /\ page' = 0
    /\ pc' = "papersleep"
    /\ UNCHANGED <<papers, idx, citations, lastFetch, pacedSince>>
    /\ UNCHANGED <<table, saved, min_year>>
    /\ OnlyColl

\* line 234: the sleep that ends an iteration of the publication loop
PaperSleep ==
    /\ pc = "papersleep"
    /\ \E d \in GetRandomDelay : PacingSleep(d)
    /\ idx' = idx + 1
    /\ pc' = "paper"
    /\ UNCHANGED <<papers, total_pages, page, citations, all_citations,
                   requested, lastFetch>>
    /\ UNCHANGED <<table, saved, min_year>>
    /\ OnlyColl

\* lines 240-255: the loop over the rows is over.  Without a record the
\* empty DataFrame is returned and no file written; else the records are
\* sorted, saved and returned
Finish ==
    /\ pc = "paper"
    /\ idx > Len(papers)
    /\ pc' = "done"
    /\ IF all_citations = <<>>
          THEN UNCHANGED <<table, saved>>
          ELSE /\ table' = SortValues(all_citations)
               /\ saved' = SaveCsv(table')
    /\ UNCHANGED <<papers, idx, total_pages, page, citations, all_citations,
                   requested, lastFetch, pacedSince, min_year>>
    /\ OnlyColl

(***************************************************************************)
(* The year filter of get_all_citations, src/scholar_citations.py:227-231  *)
(***************************************************************************)
InitFiltOff == fPc = "off" /\ fIn = <<>> /\ fMin = 0 /\ fOut = <<>>

InitFilt ==
    /\ fPc = "in"
    /\ \E ys \in SeqsUpTo(Years, MaxRecords) :
          fIn = [k \in 1..Len(ys) |-> [title |-> k, year |-> ys[k]]]
    /\ fMin \in MinYears
    /\ fOut = <<>>

ApplyFilter ==
    /\ fPc = "in"
    /\ fOut' = FilterByYear(fIn, fMin)
    /\ fPc' = "out"
    /\ UNCHANGED <<fIn, fMin>>
    /\ OnlyFilt

(***************************************************************************)
(* The name-matching rule of process_papers,                               *)
(* src/scrape_affliations.py:174 and :182                                  *)
(***************************************************************************)
\* str.lower(), character by character
LowerOfUpper ==
    [c \in {UpperCase[k] : k \in 1..Len(UpperCase)} |->
        LowerCase[CHOOSE k \in 1..Len(UpperCase) : UpperCase[k] = c]]
LowerChar(c) == IF c \in DOMAIN LowerOfUpper THEN LowerOfUpper[c] ELSE c
Lower(s) == [k \in 1..Len(s) |-> LowerChar(s[k])]

\* a in b, for Python strings
IsSubstr(a, b) ==
    \E k \in 0..(Len(b) - Len(a)) : SubSeq(b, k + 1, k + Len(a)) = a

\* NameMatches with the containment tested in one direction only
NameMatchesOneWay(name, aff_author) == IsSubstr(Lower(name), Lower(aff_author))

\* NameMatches refusing an empty name
NameMatchesNonEmpty(name, aff_author) ==
    /\ name # <<>>
    /\ \/ IsSubstr(Lower(name), Lower(aff_author))
       \/ IsSubstr(Lower(aff_author), Lower(name))

\* name.lower() in aff_author.lower() or aff_author.lower() in name.lower()
NameMatches(name, aff_author) ==
    \/ IsSubstr(Lower(name), Lower(aff_author))
    \/ IsSubstr(Lower(aff_author), Lower(name))

JDotSmith  == <<"J", ".", " ", "S", "m", "i", "t", "h">>
JohnSmith  == <<"J", "o", "h", "n", " ", "S", "m", "i", "t", "h">>
Smith      == <<"S", "m", "i", "t", "h">>
SmithUpper == <<"S", "M", "I", "T", "H">>
JohnLower  == <<"j", "o", "h", "n">>
AnnLee     == <<"A", "n", "n", " ", "L", "e", "e">>
Lee        == <<"L", "e", "e">>
AnnLeeLow  == <<"a", "n", "n", " ", "l", "e", "e">>
NameSamples ==
    {JDotSmith, JohnSmith, Smith, SmithUpper, JohnLower, AnnLee, Lee,
     AnnLeeLow, <<>>}

InitMatchOff == nmPc = "off" /\ nmName = <<>> /\ nmAuthor = <<>> /\ nmOut = FALSE

InitMatch ==
    /\ nmPc = "in"
    /\ nmName \in NameSamples
    /\ nmAuthor \in NameSamples
    /\ nmOut = FALSE

ApplyMatch ==
    /\ nmPc = "in"
    /\ nmOut' = NameMatches(nmName, nmAuthor)
    /\ nmPc' = "out"
    /\ UNCHANGED <<nmName, nmAuthor>>
    /\ OnlyMatch

(***************************************************************************)
(* process_papers, src/scrape_affliations.py:138-212, on one output_file   *)
(* as main() (lines 214-250, read with its body indented) calls it, over   *)
(* two runs: the first run starts at index 0 with no file, and ends by     *)
(* returning, after which main() saves the result once more, or by being   *)
(* killed between two papers; the second run starts at any index below     *)
(* len(titles) on the file the first one left.                             *)
(***************************************************************************)
Space    == " "
NotFound == <<"N", "o", "t", " ", "f", "o", "u", "n", "d">>
Sep      == <<";", " ">>
Doi1     == <<"1", "0", ".", "1", "/", "x">>
Mit      == <<"M", "I", "T">>
Yale     == <<"Y", "a", "l", "e">>
NotApplicable == <<"N", "/", "A">>
Eth      == <<"E", "T", "H">>

\* str.strip()
RECURSIVE Strip(_)
Strip(s) ==
    IF Len(s) = 0 THEN s
    ELSE IF s[1] = Space THEN Strip(Tail(s))
    ELSE IF s[Len(s)] = Space THEN Strip(SubSeq(s, 1, Len(s) - 1))
    ELSE s

\* "; ".join(affiliations)
RECURSIVE Join(_)
Join(affs) ==
    IF Len(affs) = 0 THEN <<>>
    ELSE IF Len(affs) = 1 THEN affs[1]
    ELSE affs[1] \o Sep \o Join(Tail(affs))

\* An author entry of the Crossref item.  given and family are <<>> when the
\* key is missing; affiliation lists the "name" of every embedded entry;
\* wellFormed is FALSE for an entry whose shape makes the loop body raise
\* (an entry that is no dict, an "affiliation" that is null).
Author(given, family, affiliation, wellFormed) ==
    [given |-> given, family |-> family, affiliation |-> affiliation,
     wellFormed |-> wellFormed]

\* What the sources answer for one title.
\*   crossref: "none" (no item, or a RequestException), "raise" (the JSON
\*             lacks message/items: KeyError), "item"
\*   doi:      the item's DOI, <<>> when it has none
\*   openalex, semantic: <<kind, pairs>> with kind "none" (None returned),
\*             "raise" (the JSON's shape makes the parser raise) or "list"
Paper(crossref, doi, authors, openalex, semantic) ==
    [crossref |-> crossref, doi |-> doi, authors |-> authors,
     openalex |-> openalex, semantic |-> semantic]

NoAnswer == <<"none", <<>>>>

PaperNoMatch == Paper("none", <<>>, <<>>, NoAnswer, NoAnswer)
PaperRaises  == Paper("raise", <<>>, <<>>, NoAnswer, NoAnswer)
PaperEmbedded ==
    Paper("item", Doi1,
          <<Author(<<"A", "n", "n">>, Lee, <<Mit>>, TRUE),
            Author(<<"J", ".">>, Smith, <<>>, TRUE)>>,
          <<"list", <<<<AnnLee, Eth>>, <<JohnSmith, Yale>>>>>>, NoAnswer)
\* an item without DOI whose first author carries the embedded affiliation
\* "N/A" and whose second author carries none
PaperNoDoi ==
    Paper("item", <<>>,
          <<Author(<<"A", "n", "n">>, Lee, <<NotApplicable>>, TRUE),
            Author(<<"J", ".">>, Smith, <<>>, TRUE)>>,
          NoAnswer, NoAnswer)
PaperFallback ==
    Paper("item", Doi1,
          <<Author(<<"A", "n", "n">>, Lee, <<>>, TRUE),
            Author(<<"J", ".">>, Smith, <<>>, TRUE)>>,
          <<"list", <<<<AnnLeeLow, Mit>>, <<JohnSmith, Yale>>>>>>,
          <<"list", <<<<Smith, Yale>>, <<Smith, Eth>>>>>>)
PaperPartial ==
    Paper("item", Doi1,
          <<Author(<<"A", "n", "n">>, Lee, <<Mit>>, TRUE),
            Author(<<>>, <<>>, <<>>, FALSE)>>,
          NoAnswer, NoAnswer)
\* items for which a source's answer makes its parser raise an exception
\* that is no RequestException (an authorship whose "author" is null, line
\* 84; an author entry that is null, line 127)
Raises == <<"raise", <<>>>>
PaperOpenAlexRaises ==
    Paper("item", Doi1,
          <<Author(<<"A", "n", "n">>, Lee, <<Mit>>, TRUE),
            Author(<<"J", ".">>, Smith, <<>>, TRUE)>>,
          Raises, <<"list", <<<<Smith, Yale>>>>>>)
PaperSemanticRaises ==
    Paper("item", Doi1, <<Author(<<>>, Smith, <<>>, TRUE)>>,
          <<"list", <<<<AnnLee, Mit>>>>>>, Raises)
\* items whose author entry has neither "given" nor "family"
PaperNameless ==
    Paper("item", Doi1, <<Author(<<>>, <<>>, <<>>, TRUE)>>,
          <<"list", <<<<AnnLee, Mit>>, <<JohnSmith, Yale>>>>>>,
          <<"list", <<<<Smith, Eth>>>>>>)
PaperNamelessTertiary ==
    Paper("item", Doi1, <<Author(<<>>, <<>>, <<>>, TRUE)>>,
          NoAnswer, <<"list", <<<<AnnLee, Mit>>, <<Smith, Eth>>>>>>)
PaperCases ==
    {PaperNoMatch, PaperRaises, PaperEmbedded, PaperNoDoi, PaperFallback,
     PaperPartial, PaperOpenAlexRaises, PaperSemanticRaises, PaperNameless,
     PaperNamelessTertiary}

\* the title list: "t1", "t2", ...
TitleOf(k) == <<"t">> \o ToStr(k)

\* f"{author.get('given', '')} {author.get('family', '')}".strip()
AuthorName(author) == Strip(author.given \o <<Space>> \o author.family)

\* NeedsFallback without the test of the affiliations found so far
NeedsFallbackAlways(affiliations, doi) == doi # <<>>

\* lines 170 and 178: if not affiliations and doi
NeedsFallback(affiliations, doi) == affiliations = <<>> /\ doi # <<>>

\* lines 173-175 and 181-183: the affiliations of the pairs whose author
\* matches name
RECURSIVE Matching(_, _)
Matching(name, pairs) ==
    IF Len(pairs) = 0 THEN <<>>
    ELSE (IF NameMatches(name, pairs[1][1]) THEN <<pairs[1][2]>> ELSE <<>>)
         \o Matching(name, Tail(pairs))

\* lines 160-194 for one author: the record, the sources queried for it in
\* order, and whether the body raised before the record was appended
AuthorOutcome(title, doi, author, p) ==
    LET name     == AuthorName(author)
        embedded == author.affiliation
        askOA    == NeedsFallback(embedded, doi)
        afterOA  == IF askOA /\ p.openalex[1] = "list"
                    THEN embedded \o Matching(name, p.openalex[2])
                    ELSE embedded
        raiseOA  == askOA /\ p.openalex[1] = "raise"
        askSS    == ~raiseOA /\ NeedsFallback(afterOA, doi)
        afterSS  == IF askSS /\ p.semantic[1] = "list"
                    THEN afterOA \o Matching(name, p.semantic[2])
                    ELSE afterOA
        raiseSS  == askSS /\ p.semantic[1] = "raise"
    IN  IF ~author.wellFormed
        THEN [raised |-> TRUE, queries |-> <<>>, record |-> <<>>]
        ELSE [raised  |-> raiseOA \/ raiseSS,
              queries |-> (IF askOA THEN <<"openalex">> ELSE <<>>)
                          \o (IF askSS THEN <<"semantic">> ELSE <<>>),
              record  |-> <<[paper_title  |-> title,
                             author       |-> name,
                             affiliations |-> IF afterSS # <<>> THEN Join(afterSS)
                                              ELSE NotFound,
                             doi          |-> IF doi # <<>> THEN doi ELSE NotFound]>>]

\* AuthorsFrom taking back the paper's records when an author raises
RECURSIVE AuthorsFromAtomic(_, _, _, _, _)
AuthorsFromAtomic(title, p, k, acc, log) ==
    IF k > Len(p.authors) THEN [results |-> acc, raised |-> FALSE, log |-> log]
    ELSE LET o == AuthorOutcome(title, p.doi, p.authors[k], p)
         IN  IF o.raised
             THEN [results |-> SelectSeq(acc, LAMBDA r : r.paper_title # title),
                   raised |-> TRUE, log |-> Append(log, o.queries)]
             ELSE AuthorsFromAtomic(title, p, k + 1, acc \o o.record,
                                    Append(log, o.queries))

\* lines 160-194: the loop over the item's authors from author k on; acc is
\* the list of records, log the sources queried per author
RECURSIVE AuthorsFrom(_, _, _, _, _)
AuthorsFrom(title, p, k, acc, log) ==
    IF k > Len(p.authors) THEN [results |-> acc, raised |-> FALSE, log |-> log]
    ELSE LET o == AuthorOutcome(title, p.doi, p.authors[k], p)
         IN  IF o.raised
             THEN [results |-> acc, raised |-> TRUE, log |-> Append(log, o.queries)]
             ELSE AuthorsFrom(title, p, k + 1, acc \o o.record, Append(log, o.queries))

\* lines 153-204: the try block of one iteration, up to the checkpoint
PaperOutcome(acc, title, p) ==
    CASE p.crossref = "none"  -> [results |-> acc, raised |-> FALSE, log |-> <<>>]
      [] p.crossref = "raise" -> [results |-> acc, raised |-> TRUE, log |-> <<>>]
      [] OTHER                -> AuthorsFrom(title, p, 1, acc, <<>>)

\* ---- the checkpoint file: [exists, rows]; rows are the data lines.  An
\* empty table has no columns, so to_csv(index=False) writes a blank line.
NoFile == [exists |-> FALSE, rows |-> <<>>]

\* the strings pandas.read_csv reads as missing (its default na_values)
NaValues ==
    {<<>>, <<"N", "A">>, <<"N", "/", "A">>, <<"n", "/", "a">>, <<"N", "a", "N">>,
     <<"n", "a", "n">>, <<"N", "U", "L", "L">>, <<"n", "u", "l", "l">>,
     <<"N", "o", "n", "e">>, <<"#", "N", "/", "A">>, <<"<", "N", "A", ">">>}

\* to_csv of one value: a missing value is written as the empty field
WriteField(v) == IF v = NaN THEN <<>> ELSE v
\* read_csv of one field of a text column
ReadField(s) == IF s \in NaValues THEN NaN ELSE s

\* the four columns of a record, written and read
WriteRecord(r) ==
    [paper_title  |-> WriteField(r.paper_title), author |-> WriteField(r.author),
     affiliations |-> WriteField(r.affiliations), doi   |-> WriteField(r.doi)]
ReadRecord(r) ==
    [paper_title  |-> ReadField(r.paper_title), author |-> ReadField(r.author),
     affiliations |-> ReadField(r.affiliations), doi   |-> ReadField(r.doi)]

\* pd.DataFrame(results).to_csv(output_file, index=False)
ToCsv(rs) ==
    [exists |-> TRUE, rows |-> [k \in 1..Len(rs) |-> WriteRecord(rs[k])]]

\* pd.read_csv(output_file) raises EmptyDataError on a file with no columns
ReadRaises(f) == f.exists /\ f.rows = <<>>
\* pd.read_csv(output_file).to_dict('records')
ReadCsv(f) == [k \in 1..Len(f.rows) |-> ReadRecord(f.rows[k])]

InitAffOff ==
    /\ aPc = "off" /\ world = <<>> /\ run = "first" /\ start_index = 0 /\ i = 0
    /\ results = <<>> /\ file = NoFile /\ loaded = <<>> /\ fileAtStart = NoFile
    /\ firstEnd = <<"running", 0, FALSE>> /\ firstResult = <<>>
    /\ lastPaper = [index |-> 0, raised |-> FALSE, log |-> <<>>, before |-> <<>>,
                    fileBefore |-> NoFile, wrote |-> FALSE, slept |-> 0,
                    valid |-> FALSE]

InitAff ==
    /\ aPc = "idle"
    /\ \E n \in 1..MaxTitles : world \in [1..n -> PaperCases]
    /\ run = "first" /\ start_index = 0 /\ i = 0
    /\ results = <<>> /\ file = NoFile /\ loaded = <<>> /\ fileAtStart = NoFile
    /\ firstEnd = <<"running", 0, FALSE>> /\ firstResult = <<>>
    /\ lastPaper = [index |-> 0, raised |-> FALSE, log |-> <<>>, before |-> <<>>,
                    fileBefore |-> NoFile, wrote |-> FALSE, slept |-> 0,
                    valid |-> FALSE]

NTitles == Len(world)

\* lines 140-148: a run starts and loads output_file when it exists
StartRun(s) ==
    /\ aPc = "idle"
    /\ run = "first" => s = 0
    /\ start_index' = s
    /\ i' = s
    /\ lastPaper' = [lastPaper EXCEPT !.valid = FALSE]
    /\ fileAtStart' = file
    /\ IF ReadRaises(file)
          THEN aPc' = "crashed" /\ UNCHANGED <<results, loaded>>
          ELSE /\ aPc' = "loop"
               /\ results' = IF file.exists THEN ReadCsv(file) ELSE <<>>
               /\ loaded' = results'
    /\ UNCHANGED <<world, run, file, firstEnd, firstResult>>

\* main() lines 216-234: start_index is set by main(), which refuses a
\* start_index >= len(titles) (lines 228-230)
StartAnyRun ==
    /\ \E s \in 0..(NTitles - 1) : StartRun(s)
    /\ OnlyAff

\* lines 150-207: one iteration of the loop over titles[start_index:]
ProcessPaper ==
    /\ aPc = "loop"
    /\ i < NTitles
    /\ \E o \in {PaperOutcome(results, TitleOf(i + 1), world[i + 1])} :
           /\ results' = o.results
           /\ file' = IF o.raised THEN file ELSE ToCsv(o.results)
           /\ lastPaper' = [index |-> i, raised |-> o.raised, log |-> o.log,
                            before |-> results, fileBefore |-> file,
                            wrote |-> ~o.raised,
                            slept |-> IF o.raised THEN 0 ELSE PaperDelay,
                            valid |-> TRUE]
    /\ i' = i + 1
    /\ UNCHANGED <<aPc, world, run, start_index, loaded, fileAtStart, firstEnd,
                   firstResult>>
    /\ OnlyAff

\* line 212: return pd.DataFrame(results)
ReturnResults ==
    /\ aPc = "loop"
    /\ i >= NTitles
    /\ aPc' = "returned"
    /\ IF run = "first"
          THEN firstEnd' = <<"complete", i, FALSE>> /\ firstResult' = results
          ELSE UNCHANGED <<firstEnd, firstResult>>
    /\ UNCHANGED <<world, run, start_index, i, results, file, loaded, fileAtStart,
                   lastPaper>>
    /\ OnlyAff

\* main() lines 236-237: results_df.to_csv(output_file, index=False) after
\* process_papers returned
FinalSave ==
    /\ aPc = "returned"
    /\ aPc' = "saved"
    /\ file' = ToCsv(results)
    /\ UNCHANGED <<world, run, start_index, i, results, loaded, fileAtStart,
                   firstEnd, firstResult, lastPaper>>
    /\ OnlyAff

\* the first run's process is killed between two papers: what it held in
\* memory is lost, output_file stays
Kill ==
    /\ aPc = "loop"
    /\ run = "first"
    /\ i < NTitles
    /\ firstEnd' = <<"killed", i, lastPaper.valid /\ lastPaper.wrote>>
    /\ firstResult' = results
    /\ run' = "second"
    /\ aPc' = "idle"
    /\ results' = <<>>
    /\ UNCHANGED <<world, start_index, i, file, loaded, fileAtStart, lastPaper>>
    /\ OnlyAff

\* the program is started again on the same titles and output_file
RunAgain ==
    /\ aPc \in {"saved", "crashed"}
    /\ run = "first"
    /\ run' = "second"
    /\ aPc' = "idle"
    /\ results' = <<>>
    /\ UNCHANGED <<world, start_index, i, file, loaded, fileAtStart, firstEnd,
                   firstResult, lastPaper>>
    /\ OnlyAff

(***************************************************************************)
(* _get_total_citation_pages, src/scholar_citations.py:87-112, one call    *)
(***************************************************************************)
\* labels a pagination footer can carry
LinkLabels == {<<"1">>, <<"2">>, <<"5">>, NextLabel, <<SuperTwo>>}

\* the pages the call is applied to: any result page of the collector, and
\* pages whose footer carries up to MaxLabels links
LabelledPages ==
    PageContents \cup {Unparsable}
    \cup {<<"page", blocks, <<TRUE, ls>>>> :
              blocks \in {<<>>, <<FALSE>>}, ls \in SeqsUpTo(LinkLabels, MaxLabels)}

InitPagesOff == tpPc = "off" /\ tpIn = <<"page", <<>>, <<FALSE, <<>>>>>> /\ tpOut = 0

InitPages == tpPc = "in" /\ tpIn \in LabelledPages /\ tpOut = 0

ApplyTotalPages ==
    /\ tpPc = "in"
    /\ tpOut' = GetTotalCitationPages(tpIn)
    /\ tpPc' = "out"
    /\ UNCHANGED tpIn
    /\ OnlyPages


(***************************************************************************)
(* The year of _parse_citing_paper, src/scholar_citations.py:122-146       *)
(***************************************************************************)
\* the characters of the sample bylines; "x" is any character that is no
\* digit
BylineChars == {"1", "9", "2", "0", ArabicTwo, "x"}
Bylines == SeqsUpTo(BylineChars, MaxByline)

\* the pattern 20\d{2}|19\d{2} matches text at position k
YearPatternAt(text, k) ==
    /\ k + 3 <= Len(text)
    /\ \/ text[k] = "2" /\ text[k + 1] = "0"
       \/ text[k] = "1" /\ text[k + 1] = "9"
    /\ text[k + 2] \in DecimalDigits
    /\ text[k + 3] \in DecimalDigits

\* re.search(r'20\d{2}|19\d{2}', byline_text) and group(0): the leftmost
\* match, '' without one
SearchYear(text) ==
    LET at == {k \in 1..Len(text) : YearPatternAt(text, k)}
    IN  IF at = {} THEN <<>>
        ELSE LET first == CHOOSE k \in at : \A j \in at : k <= j
             IN  SubSeq(text, first, first + 3)

InitYear == yPc = "in" /\ yIn \in Bylines /\ yOut = <<>>

\* lines 123-133: the year of the record, from the byline text
ParseYear ==
    /\ yPc = "in"
    /\ yOut' = SearchYear(yIn)
    /\ yPc' = "out"
    /\ UNCHANGED yIn
    /\ OnlyYear

InitYearOff == yPc = "off" /\ yIn = <<>> /\ yOut = <<>>

(***************************************************************************)
(* The specifications                                                      *)
(***************************************************************************)
InitSpecFetch ==
    /\ InitFetch /\ InitCollOff /\ InitFiltOff /\ InitAffOff /\ InitMatchOff
    /\ InitPagesOff /\ InitSortOff /\ InitYearOff
NextFetch ==
    \/ AttemptOk \/ AttemptRateLimit \/ AttemptBadStatus \/ AttemptException
    \/ Exhausted
SpecFetch == InitSpecFetch /\ [][NextFetch]_vars

Init ==
    /\ InitFetchOff /\ InitColl /\ InitFiltOff /\ InitAffOff /\ InitMatchOff
    /\ InitPagesOff /\ InitSortOff /\ InitYearOff
Next ==
    \/ FetchProfile \/ NextPaper \/ FetchFirstPage \/ FetchNextPage \/ ExceptContinue
    \/ PageSleep \/ PagesDone \/ Extend \/ PaperSleep \/ Finish
Spec == Init /\ [][Next]_vars

InitSpecFilter ==
    /\ InitFetchOff /\ InitCollOff /\ InitFilt /\ InitAffOff /\ InitMatchOff
    /\ InitPagesOff /\ InitSortOff /\ InitYearOff
NextFilter == ApplyFilter
SpecFilter == InitSpecFilter /\ [][NextFilter]_vars

InitSpecAff ==
    /\ InitFetchOff /\ InitCollOff /\ InitFiltOff /\ InitAff /\ InitMatchOff
    /\ InitPagesOff /\ InitSortOff /\ InitYearOff
NextAff ==
    \/ StartAnyRun \/ ProcessPaper \/ ReturnResults \/ FinalSave \/ Kill
    \/ RunAgain
SpecAff == InitSpecAff /\ [][NextAff]_vars

InitSpecMatch ==
    /\ InitFetchOff /\ InitCollOff /\ InitFiltOff /\ InitAffOff /\ InitMatch
    /\ InitPagesOff /\ InitSortOff /\ InitYearOff
NextMatch == ApplyMatch
SpecMatch == InitSpecMatch /\ [][NextMatch]_vars

InitSpecPages ==
    /\ InitFetchOff /\ InitCollOff /\ InitFiltOff /\ InitAffOff /\ InitMatchOff
    /\ InitPages /\ InitSortOff /\ InitYearOff
NextPages == ApplyTotalPages
SpecPages == InitSpecPages /\ [][NextPages]_vars

InitSpecSort ==
    /\ InitFetchOff /\ InitCollOff /\ InitFiltOff /\ InitAffOff /\ InitMatchOff
    /\ InitPagesOff /\ InitSort /\ InitYearOff
NextSort == ApplySort
SpecSort == InitSpecSort /\ [][NextSort]_vars

InitSpecYear ==
    /\ InitFetchOff /\ InitCollOff /\ InitFiltOff /\ InitAffOff /\ InitMatchOff
    /\ InitPagesOff /\ InitSortOff /\ InitYear
NextYear == ParseYear
SpecYear == InitSpecYear /\ [][NextYear]_vars

(***************************************************************************)
(* The uninterrupted run of process_papers over all titles, with no file   *)
(***************************************************************************)
RECURSIVE RunFrom(_, _)
RunFrom(acc, k) ==
    IF k > NTitles THEN acc
    ELSE RunFrom(PaperOutcome(acc, TitleOf(k), world[k]).results, k + 1)
Uninterrupted == RunFrom(<<>>, 1)

IsPrefix(s, t) == Len(s) <= Len(t) /\ SubSeq(t, 1, Len(s)) = s

\* the (paper_title, author) pair of a record, as it is written to the file
PairOf(r) == <<WriteField(r.paper_title), WriteField(r.author)>>
CountPair(rs, pair) == Cardinality({k \in 1..Len(rs) : PairOf(rs[k]) = pair})

\* a is a contiguous part of b
Within(a, b) == \E m \in 0..Len(b) : \E n \in m..Len(b) : SubSeq(b, m + 1, n) = a

(***************************************************************************)
(* Claims                                                                  *)
(***************************************************************************)

\* C1 (as claimed): in the citation pass every successful fetch that follows
\* another successful fetch is preceded by a pacing sleep of 2 to 4 seconds
\* slept since that earlier fetch.
C1_PacingBetweenSuccessfulFetches ==
    [][(lastFetch' # lastFetch /\ lastFetch # <<"none">>)
           => pacedSince \in MinDelay..MaxDelay]_vars

\* C2 (as claimed): in _make_request every attempt that ends with a status
\* other than 200 and 429, or with an exception, and is not the last of the
\* budget, is followed by a sleep of 2 to 4 seconds.
C2_JitterAfterEveryFailedAttempt ==
    \A k \in 1..Len(mrStatuses) :
        (mrStatuses[k] \in {"500", "exc"} /\ k < mrRetries)
            => mrWaits[k] \in MinDelay..MaxDelay

\* C3 (as claimed): every 429 answer to attempt k is followed by a sleep of
\* exactly k*60 seconds and then by another attempt on the same URL.
C3_Every429WaitsThenRetries ==
    \A k \in 1..Len(mrStatuses) :
        mrStatuses[k] = "429" =>
            /\ mrWaits[k] = k * 60
            /\ mrPc = "returned" => (Len(mrIssued) > k /\ mrIssued[k + 1] = mrUrl)

\* C3 (amended): every 429 answer to attempt k is followed by a sleep of
\* exactly k*60 seconds; another attempt on the same URL follows exactly
\* when k is less than retries, and after a 429 on the last attempt of the
\* budget the call returns None.
C3_429WaitsAndRetriesWithinBudget ==
    \A k \in 1..Len(mrStatuses) :
        mrStatuses[k] = "429" =>
            /\ mrWaits[k] = k * 60
            /\ mrPc = "returned" =>
                /\ (k < mrRetries) <=> (Len(mrIssued) > k)
                /\ Len(mrIssued) > k => mrIssued[k + 1] = mrUrl
                /\ k = mrRetries => mrRet = None

\* C3 witness: a returned call whose first and last attempts were answered
\* 429, the last one using up the budget.
C3_Witness ==
    /\ mrPc = "returned"
    /\ Len(mrStatuses) >= 2
    /\ Len(mrStatuses) = mrRetries
    /\ mrStatuses[1] = "429"
    /\ mrStatuses[Len(mrStatuses)] = "429"

\* C4: _make_request makes at most retries attempts, none after a 200; it
\* returns the text of the 200 answer, and None exactly when no attempt was
\* answered 200; it always ends by returning, and can always take a step
\* until it has.
C4_MakeRequestEndsWithinBudget ==
    /\ Len(mrStatuses) <= mrRetries
    /\ \A k \in 1..(Len(mrStatuses) - 1) : mrStatuses[k] # "200"
    /\ mrPc \in {"loop", "returned"}
    /\ mrPc = "loop" => ENABLED NextFetch
    /\ mrPc = "returned" =>
        /\ (mrRet = None) <=> (\A k \in 1..Len(mrStatuses) : mrStatuses[k] # "200")
        /\ mrRet # None => mrRet \in Bodies
        /\ (\A k \in 1..Len(mrStatuses) : mrStatuses[k] # "200")
              => Len(mrStatuses) = mrRetries

\* C4 witness: a call that returned the text of its third attempt after a
\* 429 and an exception.
C4_Witness ==
    /\ mrPc = "returned"
    /\ mrRet \in Bodies
    /\ mrStatuses = <<"429", "exc", "200">>

\* C5 (as claimed): with a min_year, the filter drops exactly the records
\* whose year is non-empty, numeric and less than min_year; every record
\* with an empty or non-numeric year survives.
C5_FilterDropsOnlyOlderNumericYears ==
    (fPc = "out" /\ fMin # 0) =>
        fOut = SelectSeq(fIn, LAMBDA c :
                   ~(c.year # <<>> /\ IsDigit(c.year) /\ ToInt(c.year) < fMin))

\* C6 (as claimed): after a first run that returned, a second run with
\* start_index = 0 on the file it left returns a result, and leaves a file,
\* in which no (paper_title, author) pair occurs more often than in the
\* result of the first run.
C6_RerunDoesNotDuplicate ==
    (run = "second" /\ firstEnd[1] = "complete" /\ start_index = 0
        /\ aPc = "returned") =>
        \A k \in 1..Len(results) :
            /\ CountPair(results, PairOf(results[k]))
                  <= CountPair(firstResult, PairOf(results[k]))
            /\ CountPair(file.rows, PairOf(results[k]))
                  <= CountPair(firstResult, PairOf(results[k]))

\* C7 (as claimed): when the first run is killed right after the checkpoint
\* write of paper k-1 (0 < k < n) and the second run starts at index k, the
\* second run ends by returning as many records, and the same records, as
\* the uninterrupted run over all the titles.
C7_ResumeEqualsUninterrupted ==
    (run = "second" /\ firstEnd[1] = "killed" /\ firstEnd[3]
        /\ firstEnd[2] > 0 /\ firstEnd[2] < NTitles
        /\ start_index = firstEnd[2] /\ aPc \in {"returned", "crashed"}) =>
        /\ aPc = "returned"
        /\ Len(results) = Len(Uninterrupted)
        /\ ToCsv(results) = ToCsv(Uninterrupted)

\* C8 (as claimed): at every paper boundary of a run the in-memory sequence
\* extends what it was before the paper, and the records in the checkpoint
\* file are the in-memory sequence.
C8_CheckpointEqualsMemoryAtPaperBoundary ==
    (aPc = "loop" /\ lastPaper.valid) =>
        /\ IsPrefix(lastPaper.before, results)
        /\ file.rows = ToCsv(results).rows

\* C9: for every well-formed author of the paper just processed, when the
\* Crossref entry embeds an affiliation neither OpenAlex nor Semantic
\* Scholar is queried; when it embeds none and the paper has a DOI, OpenAlex
\* is queried first and Semantic Scholar, if at all, after it.
C9_FallbackOrder ==
    (lastPaper.valid /\ world[lastPaper.index + 1].crossref = "item") =>
        LET p == world[lastPaper.index + 1]
        IN  \A a \in 1..Len(lastPaper.log) :
                LET q == lastPaper.log[a]
                    author == p.authors[a]
                IN  author.wellFormed =>
                      /\ author.affiliation # <<>> => q = <<>>
                      /\ (author.affiliation = <<>> /\ p.doi # <<>>) =>
                            /\ Len(q) >= 1
                            /\ q[1] = "openalex"
                            /\ \A j \in 1..Len(q) : q[j] = "semantic" => j = 2
                            /\ \A j \in 1..Len(q) : q[j] = "openalex" => j = 1

\* C9 witness: a paper whose first author has an embedded affiliation and
\* no query, and whose second author has none and is looked up in OpenAlex
\* and then in Semantic Scholar.
C9_Witness ==
    /\ lastPaper.valid
    /\ world[lastPaper.index + 1] = PaperEmbedded
    /\ lastPaper.log = <<<<>>, <<"openalex", "semantic">>>>

\* C10 (as claimed): a name is accepted exactly when, lowercased, one of the
\* two names is contained in the other, and under this rule "J. Smith" and
\* "John Smith" match in both argument orders.
C10_JSmithMatchesJohnSmith ==
    nmPc = "out" =>
        /\ nmOut <=> (Within(Lower(nmName), Lower(nmAuthor))
                        \/ Within(Lower(nmAuthor), Lower(nmName)))
        /\ {nmName, nmAuthor} = {JDotSmith, JohnSmith} => nmOut

\* C10 (amended): a name is accepted exactly when, lowercased, one of the
\* two names is contained in the other (so "Smith" and "SMITH" match
\* "John Smith" in both argument orders); under this rule "J. Smith" and
\* "John Smith" do not match, in either argument order.
C10_MatchIsContainmentEitherWay ==
    nmPc = "out" =>
        /\ nmOut <=> (Within(Lower(nmName), Lower(nmAuthor))
                        \/ Within(Lower(nmAuthor), Lower(nmName)))
        /\ {nmName, nmAuthor} = {JDotSmith, JohnSmith} => ~nmOut
        /\ {nmName, nmAuthor} = {Smith, JohnSmith} => nmOut
        /\ {nmName, nmAuthor} = {SmithUpper, JohnSmith} => nmOut

\* C10 witness: "J. Smith" was matched against "John Smith" and refused.
C10_Witness ==
    /\ nmPc = "out"
    /\ nmName = JDotSmith
    /\ nmAuthor = JohnSmith
    /\ nmOut = FALSE

\* what the primary, secondary and tertiary sources yield for author k of
\* paper p, read off the sources' answers
YieldsNothing(p, k) ==
    LET name == AuthorName(p.authors[k])
        hit(pairs) == \E m \in 1..Len(pairs) :
                          \/ Within(Lower(name), Lower(pairs[m][1]))
                          \/ Within(Lower(pairs[m][1]), Lower(name))
    IN  /\ p.authors[k].affiliation = <<>>
        /\ \/ p.doi = <<>>
           \/ /\ ~hit(p.openalex[2])
              /\ ~hit(p.semantic[2])

\* the records the latest iteration appended
Appended == SubSeq(results, Len(lastPaper.before) + 1, Len(results))

\* C11: a paper whose primary match lists n authors appends exactly n
\* records, one per author in the listed order; affiliations is the sentinel
\* "Not found" exactly when the three sources yielded nothing for the author
\* and doi is "Not found" exactly when the match has no DOI; a paper with no
\* primary match appends nothing and is no failure.
C11_OneRecordPerListedAuthor ==
    (aPc = "loop" /\ lastPaper.valid) =>
        LET p == world[lastPaper.index + 1]
        IN  /\ IsPrefix(lastPaper.before, results)
            /\ p.crossref = "none" => (Appended = <<>> /\ ~lastPaper.raised)
            /\ p.crossref = "item" =>
                 /\ Len(Appended) = Len(p.authors)
                 /\ \A k \in 1..Len(p.authors) :
                        /\ Appended[k].paper_title = TitleOf(lastPaper.index + 1)
                        /\ Appended[k].author = AuthorName(p.authors[k])
                        /\ Appended[k].doi = NotFound <=> p.doi = <<>>
                        /\ Appended[k].doi # NotFound => Appended[k].doi = p.doi
                        /\ Appended[k].affiliations = NotFound <=> YieldsNothing(p, k)

\* the numbers a footer's digit-only link labels denote
NumberedLabels(labels) ==
    {ToInt(labels[k]) : k \in {j \in 1..Len(labels) :
                                  labels[j] # <<>> /\ \A m \in 1..Len(labels[j]) :
                                                          labels[j][m] \in Digits}}

\* C12: _get_total_citation_pages returns 0 for a page with no result block,
\* 1 for a page with result blocks and no pagination control, and with a
\* pagination control the largest digit-only link label (labels "1", "2",
\* "5" give 5).
C12_TotalPagesIsLargestNumberedLabel ==
    (tpPc = "out" /\ ~ParserRaises(tpIn)) =>
        LET hasResults == Len(tpIn[2]) > 0
            present    == tpIn[3][1]
            numbers    == NumberedLabels(tpIn[3][2])
        IN  /\ ~hasResults => tpOut = 0
            /\ (hasResults /\ ~present) => tpOut = 1
            /\ (hasResults /\ present /\ numbers # {}) =>
                   (tpOut \in numbers /\ \A n \in numbers : n <= tpOut)
            /\ tpIn = <<"page", <<FALSE>>, <<TRUE, <<<<"1">>, <<"2">>, <<"5">>>>>>>>
                   => tpOut = 5

\* the year of a row as a number; a row without year has none
HasYear(r) == r.year # <<>>
\* row a may stand directly before row b in the final table
InFinalOrder(a, b) ==
    \/ HasYear(a) /\ ~HasYear(b)
    \/ HasYear(a) /\ HasYear(b) /\ ToInt(a.year) > ToInt(b.year)
    \/ /\ a.year = b.year
       /\ \/ StrLess(a.title, b.title)
          \/ a.title = b.title /\ ToInt(a.link) < ToInt(b.link)

\* C13: the final table is the accumulated rows stably sorted by year
\* descending, rows without year last, then by title ascending; rows
\* (2019, B), (2020, A), ("", C) come out as A, B, C.
C13_FinalTableSortedByYearThenTitle ==
    sPc = "out" =>
        /\ Len(sOut) = Len(sIn)
        /\ {sOut[k] : k \in 1..Len(sOut)} = {sIn[k] : k \in 1..Len(sIn)}
        /\ \A k \in 1..(Len(sOut) - 1) : InFinalOrder(sOut[k], sOut[k + 1])
        /\ sIn = RowsOf(<<<<Y2019, <<"B">>>>, <<Y2020, <<"A">>>>, <<YEmpty, <<"C">>>>>>)
               => sOut = <<sIn[2], sIn[1], sIn[3]>>

\* C13 witness: the rows (2019, B), (2020, A), ("", C) were sorted and came
\* out as A (2020), B (2019), C ("").
C13_Witness ==
    /\ sPc = "out"
    /\ sIn = RowsOf(<<<<Y2019, <<"B">>>>, <<Y2020, <<"A">>>>, <<YEmpty, <<"C">>>>>>)
    /\ sOut[1].title = <<"A">> /\ sOut[2].title = <<"B">> /\ sOut[3].title = <<"C">>
    /\ sOut[3].year = <<>>

\* C14: the year of a record is "" or exactly 4 ASCII digits denoting an
\* integer in 1900..2099, and when it is not "" it is the leftmost part of
\* the byline that starts with 19 or 20 and goes on with two digits.
C14_YearIsFourAsciiDigits ==
    yPc = "out" =>
        \/ yOut = <<>>
        \/ /\ Len(yOut) = 4
           /\ \A k \in 1..4 : yOut[k] \in Digits
           /\ ToInt(yOut) >= 1900 /\ ToInt(yOut) <= 2099
           /\ \E k \in 1..Len(yIn) :
                 /\ YearPatternAt(yIn, k)
                 /\ SubSeq(yIn, k, k + 3) = yOut
                 /\ \A j \in 1..(k - 1) : ~YearPatternAt(yIn, j)

\* C15: for one publication the page indices are requested in the order
\* 0, 1, 2, ..., none twice and, past the first page, none that reaches the
\* page count; the URL of page i >= 1 carries start = i * 10; with a page
\* count of 0 nothing is requested after the first page.
C15_PagesRequestedInAscendingOrder ==
    /\ \A k \in 1..Len(requested) :
        /\ requested[k].page = k - 1
        /\ k = 1 => requested[k].start = <<>>
        /\ k > 1 => /\ requested[k].start = <<10 * (k - 1)>>
                    /\ requested[k].page < total_pages
    /\ total_pages = 0 => Len(requested) <= 1

\* C15 witness: a publication with 3 pages had its pages 0, 1 and 2
\* requested, the last with start = 20.
C15_Witness ==
    /\ total_pages = 3
    /\ Len(requested) = 3
    /\ requested[3].page = 2
    /\ requested[3].start = <<20>>

\* the records of the pages a publication's logged requests brought
RECURSIVE RecordsOfPages(_)
RecordsOfPages(log) ==
    IF Len(log) = 0 THEN <<>>
    ELSE log[1].records \o RecordsOfPages(Tail(log))

\* the year filter as specified: with a min_year a record is dropped only
\* when its year is non-empty, numeric and less than min_year
PassesYearFilter(c, m) ==
    ~(m # 0 /\ c.year # <<>> /\ (\A k \in 1..Len(c.year) : c.year[k] \in Digits)
        /\ ToInt(c.year) < m)

\* C16 (as claimed): a failed fetch never aborts the citation run.  A
\* publication with no feed URL or a failed first page contributes no record
\* and the next publication is still processed; after a failed page i >= 1
\* no further page of the publication is requested; when the call for the
\* publication returns, the records of its pages before i (those the year
\* filter is specified to keep) are added to the accumulated result, which
\* no other step changes; and the loop goes on to the next publication and
\* ends only after the last one.
C16_FailuresDoNotAbortTheRun ==
    [][/\ \A k \in 1..(Len(requested) - 1) : requested[k].got # "failed"
       /\ pc = "extend" =>
              /\ all_citations' =
                     all_citations
                     \o SelectSeq(RecordsOfPages(requested),
                                  LAMBDA c : PassesYearFilter(c, min_year))
              /\ pc' = "papersleep"
       /\ pc # "extend" => all_citations' = all_citations
       /\ pc = "papersleep" => (pc' = "paper" /\ idx' = idx + 1)
       /\ (pc = "paper" /\ idx <= Len(papers)) =>
              pc' = (IF papers[idx] THEN "page0" ELSE "papersleep")
       /\ pc' = "done" => (pc = "profile" \/ idx > Len(papers))]_vars

\* the secondary source's answer holds an affiliation for an author whose
\* name, lowercased, contains name or is contained in it
SecondaryHasMatch(p, name) ==
    \E m \in 1..Len(p.openalex[2]) :
        \/ Within(Lower(name), Lower(p.openalex[2][m][1]))
        \/ Within(Lower(p.openalex[2][m][1]), Lower(name))

\* C17 (as claimed): for each author the tertiary source is queried exactly when the
\* paper has a DOI, the primary source embedded no affiliation for the
\* author and the secondary source's answer held no affiliation whose author
\* matches this author, whatever it held for other authors; with no DOI
\* neither the secondary nor the tertiary source is queried.
C17_TertiaryQueriedIffSecondaryGaveNoMatch ==
    (lastPaper.valid /\ world[lastPaper.index + 1].crossref = "item") =>
        LET p == world[lastPaper.index + 1]
        IN  \A k \in 1..Len(lastPaper.log) :
                p.authors[k].wellFormed =>
                    LET queried == {lastPaper.log[k][m] : m \in 1..Len(lastPaper.log[k])}
                    IN  /\ "semantic" \in queried <=>
                               /\ p.doi # <<>>
                               /\ p.authors[k].affiliation = <<>>
                               /\ ~SecondaryHasMatch(p, AuthorName(p.authors[k]))
                        /\ p.doi = <<>> => queried = {}

\* C18: a resumed run preserves the records checkpointed before it: the
\* rows the checkpoint file held when the run started are a prefix,
\* unchanged in content and order, of the file after every checkpoint write
\* of the run and of the returned result, and only titles at indices >=
\* start_index are queried.
C18_ResumePreservesCheckpointedRecords ==
    aPc \in {"loop", "returned"} =>
        /\ IsPrefix(fileAtStart.rows, file.rows)
        /\ aPc = "returned" => IsPrefix(fileAtStart.rows, ToCsv(results).rows)
        /\ lastPaper.valid => lastPaper.index >= start_index

\* C19: a pacing delay of 1 time unit is waited between any two consecutive
\* papers, whatever the outcome of the earlier one (records found, no
\* primary match, or an error).
C19_DelayBetweenConsecutivePapers ==
    (aPc = "loop" /\ lastPaper.valid /\ i < NTitles) => lastPaper.slept = 1

\* C20: when a paper raises after records of some of its authors were
\* appended, no checkpoint is written for it and those records stay in
\* memory; a paper that completes writes everything in memory to the file,
\* the partial records of an earlier paper included, and they are in the
\* returned result.
C20_PartialRecordsSurviveAnError ==
    (aPc \in {"loop", "returned"} /\ lastPaper.valid) =>
        LET p    == world[lastPaper.index + 1]
            done == IF lastPaper.log = <<>> THEN 0
                    ELSE IF lastPaper.raised THEN Len(lastPaper.log) - 1
                    ELSE Len(lastPaper.log)
        IN  /\ IsPrefix(lastPaper.before, results)
            /\ Len(results) = Len(lastPaper.before) + done
            /\ \A k \in 1..done :
                   /\ Appended[k].paper_title = TitleOf(lastPaper.index + 1)
                   /\ Appended[k].author = AuthorName(p.authors[k])
            /\ lastPaper.raised => file = lastPaper.fileBefore
            /\ ~lastPaper.raised => file = ToCsv(results)

\* C20 witness: a paper with two authors raised at its second author; the
\* next paper completed and the run returned: the file and the result hold
\* a record of the first author only.
C20_Witness ==
    /\ aPc = "returned"
    /\ run = "first"
    /\ NTitles = 2
    /\ world[1] = PaperPartial
    /\ world[2] = PaperNoDoi
    /\ Len(results) = 3
    /\ results[1].paper_title = TitleOf(1)
    /\ results[1].author = AnnLee
    /\ results[2].paper_title = TitleOf(2)
    /\ results[3].paper_title = TitleOf(2)
    /\ file = ToCsv(results)

\* every affiliation of a source's answer, in the order of the answer
AllAffiliations(answer) == [m \in 1..Len(answer[2]) |-> answer[2][m][2]]

\* C21: an author entry with neither given nor family name gets the empty
\* string as name; when the sources are asked for it (the paper has a DOI
\* and the entry embeds no affiliation) its record collects every
\* affiliation of every author the secondary source returned or, when the
\* secondary source returned none, of every author the tertiary source
\* returned.
C21_NamelessAuthorCollectsEveryAffiliation ==
    (aPc = "loop" /\ lastPaper.valid /\ ~lastPaper.raised
        /\ world[lastPaper.index + 1].crossref = "item") =>
        LET p == world[lastPaper.index + 1]
        IN  \A k \in 1..Len(p.authors) :
                (p.authors[k].given = <<>> /\ p.authors[k].family = <<>>) =>
                    /\ Appended[k].author = <<>>
                    /\ (p.doi # <<>> /\ p.authors[k].affiliation = <<>>) =>
                         /\ Appended[k].affiliations =
                               IF AllAffiliations(p.openalex) # <<>>
                               THEN Join(AllAffiliations(p.openalex))
                               ELSE IF AllAffiliations(p.semantic) # <<>>
                               THEN Join(AllAffiliations(p.semantic))
                               ELSE NotFound
                         /\ lastPaper.log[k] =
                               IF AllAffiliations(p.openalex) # <<>>
                               THEN <<"openalex">>
                               ELSE <<"openalex", "semantic">>

\* C21 witness: for an author entry without a name the secondary source
\* returned the affiliations of Ann Lee (MIT) and John Smith (Yale); the
\* record has the empty author and the affiliations "MIT; Yale".
C21_Witness ==
    /\ aPc = "loop"
    /\ lastPaper.valid
    /\ world[lastPaper.index + 1] = PaperNameless
    /\ Len(results) > 0
    /\ results[Len(results)].author = <<>>
    /\ results[Len(results)].affiliations = Mit \o Sep \o Yale
====
